---- MODULE Spec2Model ----
(***************************************************************************)
(* Spider-Tracker (src/app.py): a Flask application over one SQLite file.  *)
(* The model keeps the four tables, the two AUTOINCREMENT counters, the    *)
(* client's session, the process-wide schema guard and, for the threaded   *)
(* specification, every request thread's position and local variables.     *)
(*                                                                         *)
(* Text that the code parses (strip, int, strptime) is a sequence of       *)
(* one-character strings; a palette colour or a note, which the code only  *)
(* compares and stores, is a sequence holding one multi-character token.   *)
(***************************************************************************)
EXTENDS Integers, Sequences, FiniteSets, TLC

VARIABLES
    db,          \* committed content of the SQLite file (tables + sqlite_sequence)
    session,     \* the client's Flask session: [last_batch]
    req,         \* the request handled last and its response
    writes,      \* (spider_id, day) -> the field values each call wrote to the key, in order
    nreq,        \* number of requests handled so far
    db_inited,   \* _db_inited
    init_lock,   \* holder of _db_init_lock, or NoThread
    init_runs,   \* how often the body of init_db_once ran to completion
    pc,          \* per thread: position inside the request it is serving
    loc,         \* per thread: the request and the handler's local variables
    wlock,       \* holder of SQLite's write lock (RESERVED), or NoThread
    pending      \* per thread: the uncommitted image of its open transaction

vars == <<db, session, req, writes, nreq, db_inited, init_lock, init_runs,
          pc, loc, wlock, pending>>

(***************************************************************************)
(* Bounds of the model.                                                    *)
(***************************************************************************)
MaxOps == 3          \* requests in one run of the sequential specification
MaxArrivals == 4     \* requests in one run of the threaded specification

(***************************************************************************)
(* Text.                                                                   *)
(***************************************************************************)
Digits == {"0", "1", "2", "3", "4", "5", "6", "7", "8", "9"}

DigitVal(c) ==
    CASE c = "0" -> 0 [] c = "1" -> 1 [] c = "2" -> 2 [] c = "3" -> 3
      [] c = "4" -> 4 [] c = "5" -> 5 [] c = "6" -> 6 [] c = "7" -> 7
      [] c = "8" -> 8 [] c = "9" -> 9

DigitChar(n) ==
    CASE n = 0 -> "0" [] n = 1 -> "1" [] n = 2 -> "2" [] n = 3 -> "3"
      [] n = 4 -> "4" [] n = 5 -> "5" [] n = 6 -> "6" [] n = 7 -> "7"
      [] n = 8 -> "8" [] n = 9 -> "9"

IsSpace(c) == c = " "

AllDigits(s) == \A i \in 1..Len(s) : s[i] \in Digits

RECURSIVE DigitsValue(_)
DigitsValue(s) ==
    IF s = <<>> THEN 0
    ELSE 10 * DigitsValue(SubSeq(s, 1, Len(s) - 1)) + DigitVal(s[Len(s)])

\* the decimal text of a natural number, as str(n) writes it
RECURSIVE NatText(_)
NatText(n) ==
    IF n < 10 THEN <<DigitChar(n)>>
    ELSE Append(NatText(n \div 10), DigitChar(n % 10))

\* str.strip(): drop leading and trailing whitespace
RECURSIVE LStrip(_)
LStrip(s) == IF s # <<>> /\ IsSpace(s[1]) THEN LStrip(Tail(s)) ELSE s

RECURSIVE RStrip(_)
RStrip(s) ==
    IF s # <<>> /\ IsSpace(s[Len(s)]) THEN RStrip(SubSeq(s, 1, Len(s) - 1)) ELSE s

Strip(s) == RStrip(LStrip(s))

(***************************************************************************)
(* Request values.  A form field is absent or a string; a JSON member is   *)
(* absent, null, a string, an integer, a float (kept in tenths) or a list.  *)
(***************************************************************************)
Missing == [k |-> "missing", s |-> <<>>, n |-> 0, l |-> <<>>]
JNull == [k |-> "null", s |-> <<>>, n |-> 0, l |-> <<>>]
Str(s) == [k |-> "str", s |-> s, n |-> 0, l |-> <<>>]
JInt(n) == [k |-> "int", s |-> <<>>, n |-> n, l |-> <<>>]
JFloat(tenths) == [k |-> "float", s |-> <<>>, n |-> tenths, l |-> <<>>]
JList(ids) == [k |-> "list", s |-> <<>>, n |-> 0, l |-> ids]

\* dict.get(key, default): the default only when the key is absent
Get(v, default) == IF v.k = "missing" THEN default ELSE v

\* `x or ""` on a form field
OrEmpty(v) == IF v.k = "str" THEN v.s ELSE <<>>

\* int(str): surrounding whitespace and one sign are allowed, then digits only
IntOfText(s) ==
    LET t == Strip(s)
        signed == t # <<>> /\ t[1] \in {"+", "-"}
        body == IF signed THEN Tail(t) ELSE t
    IN  IF body # <<>> /\ AllDigits(body)
        THEN [ok |-> TRUE,
              val |-> IF signed /\ t[1] = "-" THEN 0 - DigitsValue(body)
                      ELSE DigitsValue(body)]
        ELSE [ok |-> FALSE, val |-> 0]

\* int(float): truncation toward zero
Trunc(tenths) == IF tenths >= 0 THEN tenths \div 10 ELSE 0 - ((0 - tenths) \div 10)

\* int(v) for a request value; ok = FALSE when Python raises (ValueError, TypeError)
PyInt(v) ==
    CASE v.k = "str" -> IntOfText(v.s)
      [] v.k = "int" -> [ok |-> TRUE, val |-> v.n]
      [] v.k = "float" -> [ok |-> TRUE, val |-> Trunc(v.n)]
      [] OTHER -> [ok |-> FALSE, val |-> 0]

\* try: x = int(v)  except: x = fallback
IntOr(v, fallback) == IF PyInt(v).ok THEN PyInt(v).val ELSE fallback

Max(a, b) == IF a >= b THEN a ELSE b
Min(a, b) == IF a <= b THEN a ELSE b

(***************************************************************************)
(* datetime.strptime(day, "%Y-%m-%d").  The format's regular expression is *)
(* \d\d\d\d - (1[0-2]|0[1-9]|[1-9]) - (3[01]|[12]\d|0[1-9]|[1-9]| [1-9]),  *)
(* the whole text must be consumed, and the date must exist.               *)
(***************************************************************************)
IsLeap(y) == (y % 4 = 0 /\ y % 100 # 0) \/ y % 400 = 0

DaysInMonth(y, m) ==
    IF m = 2 THEN (IF IsLeap(y) THEN 29 ELSE 28)
    ELSE IF m \in {4, 6, 9, 11} THEN 30 ELSE 31

\* index of the first "-" of s at or after position i, 0 when there is none
RECURSIVE DashFrom(_, _)
DashFrom(s, i) ==
    IF i > Len(s) THEN 0 ELSE IF s[i] = "-" THEN i ELSE DashFrom(s, i + 1)

MonthText(s) == Len(s) \in {1, 2} /\ AllDigits(s) /\ DigitsValue(s) \in 1..12

DayText(s) ==
    \/ Len(s) \in {1, 2} /\ AllDigits(s) /\ DigitsValue(s) \in 1..31
    \/ Len(s) = 2 /\ s[1] = " " /\ s[2] \in Digits /\ DigitVal(s[2]) >= 1

strptime_ok(day) ==
    LET j == DashFrom(day, 6)
        yy == SubSeq(day, 1, 4)
        mm == SubSeq(day, 6, j - 1)
        dd == SubSeq(day, j + 1, Len(day))
    IN  /\ Len(day) >= 8
        /\ AllDigits(yy)
        /\ day[5] = "-"
        /\ j > 6
        /\ MonthText(mm)
        /\ DayText(dd)
        /\ DigitsValue(yy) >= 1
        /\ DigitsValue(LStrip(dd)) <= DaysInMonth(DigitsValue(yy), DigitsValue(mm))

(***************************************************************************)
(* Dates.  A date is [y, m, d]; toordinal, weekday and isoformat are those  *)
(* of datetime.date, monthdatescalendar that of calendar.Calendar with the *)
(* week starting on Sunday (firstweekday=6).                                *)
(***************************************************************************)
Date(y, m, d) == [y |-> y, m |-> m, d |-> d]

DaysBeforeYear(y) ==
    (y - 1) * 365 + (y - 1) \div 4 - (y - 1) \div 100 + (y - 1) \div 400

RECURSIVE DaysBeforeMonth(_, _)
DaysBeforeMonth(y, m) ==
    IF m = 1 THEN 0 ELSE DaysBeforeMonth(y, m - 1) + DaysInMonth(y, m - 1)

toordinal(dt) == DaysBeforeYear(dt.y) + DaysBeforeMonth(dt.y, dt.m) + dt.d

\* Monday is 0, Sunday is 6
weekday(dt) == (toordinal(dt) + 6) % 7

NextDay(dt) ==
    IF dt.d < DaysInMonth(dt.y, dt.m) THEN Date(dt.y, dt.m, dt.d + 1)
    ELSE IF dt.m < 12 THEN Date(dt.y, dt.m + 1, 1)
    ELSE Date(dt.y + 1, 1, 1)

PrevDay(dt) ==
    IF dt.d > 1 THEN Date(dt.y, dt.m, dt.d - 1)
    ELSE IF dt.m > 1 THEN Date(dt.y, dt.m - 1, DaysInMonth(dt.y, dt.m - 1))
    ELSE Date(dt.y - 1, 12, 31)

RECURSIVE DaysBack(_, _)
DaysBack(dt, n) == IF n = 0 THEN dt ELSE DaysBack(PrevDay(dt), n - 1)

\* the n dates from dt on, in order
RECURSIVE DatesFrom(_, _)
DatesFrom(dt, n) == IF n = 0 THEN <<>> ELSE <<dt>> \o DatesFrom(NextDay(dt), n - 1)

Pad2(n) == <<DigitChar(n \div 10), DigitChar(n % 10)>>

isoformat(dt) ==
    Pad2(dt.y \div 100) \o Pad2(dt.y % 100) \o <<"-">> \o Pad2(dt.m) \o <<"-">>
      \o Pad2(dt.d)

\* the dates of the month's grid, week after week: the month's days, the days of
\* the month before back to a Sunday, the days of the month after up to a Saturday
monthdatescalendar(year, month) ==
    LET day1 == weekday(Date(year, month, 1))
        ndays == DaysInMonth(year, month)
        days_before == (day1 - 6) % 7
        days_after == (6 - day1 - ndays) % 7
    IN  DatesFrom(DaysBack(Date(year, month, 1), days_before),
                  days_before + ndays + days_after)

(***************************************************************************)
(* SQLite's order of TEXT values under the BINARY collation: byte by byte, *)
(* and a proper prefix sorts first.                                        *)
(***************************************************************************)
CharOrd(c) ==
    CASE c = " " -> 32
      [] c = "-" -> 45
      [] c \in Digits -> 48 + DigitVal(c)
      [] OTHER -> 127

RECURSIVE TextLE(_, _)
TextLE(a, b) ==
    IF a = <<>> THEN TRUE
    ELSE IF b = <<>> THEN FALSE
    ELSE IF CharOrd(a[1]) # CharOrd(b[1]) THEN CharOrd(a[1]) < CharOrd(b[1])
    ELSE TextLE(Tail(a), Tail(b))

\* x BETWEEN lo AND hi
Between(x, lo, hi) == TextLE(lo, x) /\ TextLE(x, hi)

(***************************************************************************)
(* The palette.                                                            *)
(***************************************************************************)
COLOR_OPTIONS ==
    { <<"#ef4444">>, <<"#f97316">>, <<"#f59e0b">>, <<"#22c55e">>, <<"#06b6d4">>,
      <<"#3b82f6">>, <<"#8b5cf6">>, <<"#ec4899">>, <<"#111827">>, <<"#94a3b8">> }

YES == Str(<<"yes">>)
NO == Str(<<"no">>)

(***************************************************************************)
(* The store.  A table is a set of rows; SQLite's constraints are what the *)
(* statements below do on a conflict, not a property of the set.           *)
(***************************************************************************)
NoBatch == 0         \* session.get("last_batch") is None
NoThread == "none"

EmptyDb ==
    [schema |-> FALSE, batches |-> {}, spiders |-> {}, highlights |-> {},
     spiderlog |-> {}, seq_batches |-> 0, seq_spiders |-> 0]

\* the CREATE TABLE IF NOT EXISTS / ALTER TABLE / CREATE INDEX block
InitSchema(d) == [d EXCEPT !.schema = TRUE]

\* INSERT INTO batches (name, last_fed_color) VALUES (?, ''); AUTOINCREMENT id
InsertBatch(d, name) ==
    [d EXCEPT !.seq_batches = @ + 1,
              !.batches = @ \cup {[id |-> d.seq_batches + 1, name |-> name,
                                   last_fed_color |-> <<>>]}]

\* INSERT OR IGNORE INTO spiders (batch_id, number, name) VALUES (?, ?, '')
InsertSpider(d, batch_id, n) ==
    IF \E s \in d.spiders : s.batch_id = batch_id /\ s.number = n
    THEN d
    ELSE [d EXCEPT !.seq_spiders = @ + 1,
                   !.spiders = @ \cup {[id |-> d.seq_spiders + 1, batch_id |-> batch_id,
                                        number |-> n, name |-> <<>>]}]

\* a faulty loop, range(from, count): the last number is never inserted
RECURSIVE InsertSpidersShort(_, _, _, _)
InsertSpidersShort(d, batch_id, from, count) ==
    IF from >= count THEN d
    ELSE InsertSpidersShort(InsertSpider(d, batch_id, from), batch_id, from + 1, count)

\* for n in range(from, count + 1): INSERT OR IGNORE ...
RECURSIVE InsertSpiders(_, _, _, _)
InsertSpiders(d, batch_id, from, count) ==
    IF from > count THEN d
    ELSE InsertSpiders(InsertSpider(d, batch_id, from), batch_id, from + 1, count)

\* SELECT id FROM spiders WHERE batch_id=?
SpiderIdsOfBatch(d, batch_id) == {s.id : s \in {x \in d.spiders : x.batch_id = batch_id}}

\* SELECT batch_id FROM spiders WHERE id=?
SpiderRows(d, spider_id) == {s \in d.spiders : s.id = spider_id}

\* a faulty filter that forgets the batch
ValidIdsOfAnyBatch(d, batch_id, spider_ids) ==
    {s.id : s \in {x \in d.spiders : \E k \in 1..Len(spider_ids) : spider_ids[k] = x.id}}

\* SELECT id FROM spiders WHERE batch_id=? AND id IN (...)
ValidIds(d, batch_id, spider_ids) ==
    {i \in SpiderIdsOfBatch(d, batch_id) : \E k \in 1..Len(spider_ids) : spider_ids[k] = i}

SameKey(r, row) == r.spider_id = row.spider_id /\ r.day = row.day

\* two faulty upserts: a plain INSERT, and a DO UPDATE SET that forgets a column
UpsertLogAppending(tbl, row) == tbl \cup {row}

UpsertLogKeepingNotes(tbl, row) ==
    IF \E r \in tbl : SameKey(r, row)
    THEN {IF SameKey(r, row)
          THEN [r EXCEPT !.fed = row.fed, !.ate = row.ate, !.watered = row.watered,
                         !.molting = row.molting, !.molts_count = row.molts_count,
                         !.booty = row.booty]
          ELSE r : r \in tbl}
    ELSE tbl \cup {row}

\* INSERT INTO spiderlog ... ON CONFLICT(spider_id, day) DO UPDATE SET <every column>
UpsertLog(tbl, row) ==
    IF \E r \in tbl : SameKey(r, row)
    THEN {IF SameKey(r, row)
          THEN [r EXCEPT !.fed = row.fed, !.ate = row.ate, !.watered = row.watered,
                         !.molting = row.molting, !.molts_count = row.molts_count,
                         !.notes = row.notes, !.booty = row.booty]
          ELSE r : r \in tbl}
    ELSE tbl \cup {row}

LogRow(spider_id, day, f) ==
    [spider_id |-> spider_id, day |-> day, fed |-> f.fed, ate |-> f.ate,
     watered |-> f.watered, molting |-> f.molting, molts_count |-> f.molts_count,
     notes |-> f.notes, booty |-> f.booty]

\* for sid in valid_ids: INSERT INTO spiderlog ... ON CONFLICT ... DO UPDATE
RECURSIVE UpsertLogs(_, _, _, _)
UpsertLogs(tbl, ids, day, f) ==
    IF ids = {} THEN tbl
    ELSE LET sid == CHOOSE i \in ids : \A j \in ids : i <= j
         IN  UpsertLogs(UpsertLog(tbl, LogRow(sid, day, f)), ids \ {sid}, day, f)

\* INSERT INTO highlights ... ON CONFLICT(spider_id) DO UPDATE SET color=excluded.color
UpsertHighlight(tbl, spider_id, color) ==
    IF \E h \in tbl : h.spider_id = spider_id
    THEN {IF h.spider_id = spider_id THEN [h EXCEPT !.color = color] ELSE h : h \in tbl}
    ELSE tbl \cup {[spider_id |-> spider_id, color |-> color]}

\* UPDATE batches SET last_fed_color=? WHERE id=?
UpdateLastFed(tbl, batch_id, color) ==
    {IF b.id = batch_id THEN [b EXCEPT !.last_fed_color = color] ELSE b : b \in tbl}

\* a faulty delete that leaves the highlights behind
DeleteBatchRowsKeepingHighlights(d, batch_id, spider_ids) ==
    [d EXCEPT !.spiderlog = {r \in @ : r.spider_id \notin spider_ids},
              !.spiders = {s \in @ : s.batch_id # batch_id},
              !.batches = {b \in @ : b.id # batch_id}]

\* the DELETE statements of delete_batch
DeleteBatchRows(d, batch_id, spider_ids) ==
    [d EXCEPT !.spiderlog = {r \in @ : r.spider_id \notin spider_ids},
              !.highlights = {h \in @ : h.spider_id \notin spider_ids},
              !.spiders = {s \in @ : s.batch_id # batch_id},
              !.batches = {b \in @ : b.id # batch_id}]

(***************************************************************************)
(* The queries of batches() and batch_view_day.                            *)
(***************************************************************************)
\* SELECT * FROM batches WHERE id=?
BatchQuery(d, batch_id) == {b \in d.batches : b.id = batch_id}

\* SELECT * FROM spiders WHERE batch_id=?
SpidersQuery(d, batch_id) == {s \in d.spiders : s.batch_id = batch_id}

\* SELECT ... FROM spiderlog WHERE day=? AND spider_id IN (SELECT id FROM spiders ...)
LogsQuery(d, batch_id, day) ==
    {r \in d.spiderlog : r.day = day /\ r.spider_id \in SpiderIdsOfBatch(d, batch_id)}

\* SELECT ... FROM highlights h JOIN spiders s ON s.id = h.spider_id WHERE s.batch_id=?
HighlightsQuery(d, batch_id) ==
    {h \in d.highlights : h.spider_id \in SpiderIdsOfBatch(d, batch_id)}

\* SELECT batch_id, COUNT(*) FROM spiders GROUP BY batch_id, read at one batch
CountQuery(d, batch_id) == Cardinality(SpidersQuery(d, batch_id))

\* SELECT id FROM batches ORDER BY id DESC LIMIT 1
LatestBatch(d) ==
    IF d.batches = {} THEN NoBatch
    ELSE (CHOOSE b \in d.batches : \A c \in d.batches : c.id <= b.id).id

\* _get_last_batch_id(): the session's last batch, else the newest batch
get_last_batch_id(s, d) ==
    IF s.last_batch # NoBatch THEN s.last_batch ELSE LatestBatch(d)

\* SELECT DISTINCT day FROM spiderlog WHERE day BETWEEN ? AND ?
\*   AND spider_id IN (SELECT id FROM spiders WHERE batch_id=?)
DaysQuery(d, start, end, batch_id) ==
    {r.day : r \in {x \in d.spiderlog :
                        /\ Between(x.day, start, end)
                        /\ x.spider_id \in SpiderIdsOfBatch(d, batch_id)}}

(***************************************************************************)
(* Field coercion of the two log handlers.                                 *)
(***************************************************************************)
\* a faulty clamp without the upper limit
ClampBootyLowOnly(b) == Max(1, b)

\* booty = max(1, min(5, booty))
ClampBooty(b) == Max(1, Min(5, b))

\* save_spiderlog: request.form.get(...) with its defaults, int(), the clamp
FormFields(form) ==
    [fed |-> Get(form.fed, NO),
     ate |-> Get(form.ate, NO),
     watered |-> Get(form.watered, NO),
     molting |-> Get(form.molting, NO),
     notes |-> Get(form.notes, Str(<<>>)),
     molts_count |-> IntOr(Get(form.molts_count, Str(<<"0">>)), 0),
     booty |-> ClampBooty(IntOr(Get(form.booty, Str(<<"3">>)), 3))]

\* bulk_apply: data.get(...) with its defaults, int(), the clamp
JsonFields(data) ==
    [fed |-> Get(data.fed, NO),
     ate |-> Get(data.ate, NO),
     watered |-> Get(data.watered, NO),
     molting |-> Get(data.molting, NO),
     notes |-> Get(data.notes, Str(<<>>)),
     molts_count |-> IntOr(Get(data.molts_count, JInt(0)), 0),
     booty |-> ClampBooty(IntOr(Get(data.booty, JInt(3)), 3))]

\* data.get("spider_ids") or []
Truthy(v) ==
    CASE v.k = "missing" -> FALSE
      [] v.k = "null" -> FALSE
      [] v.k = "str" -> v.s # <<>>
      [] v.k = "list" -> v.l # <<>>
      [] OTHER -> v.n # 0

SpiderIdsArg(v) == IF Truthy(v) THEN v ELSE JList(<<>>)

(***************************************************************************)
(* Responses, and the history of the writes to each key.                   *)
(***************************************************************************)
\* what render_template is given by calendar_view: the grid's dates, the marked
\* days and the batch
Ctx(weeks, has_data_days, batch_id) ==
    [weeks |-> weeks, has_data_days |-> has_data_days, batch_id |-> batch_id]

NoCtx == Ctx(<<>>, {}, NoBatch)

Resp(op, in, code, body, n) ==
    [op |-> op, in |-> in, code |-> code, body |-> body, n |-> n, ctx |-> NoCtx]

Page(op, in, body, ctx) == [Resp(op, in, 200, body, 0) EXCEPT !.ctx = ctx]

NoReq == Resp("none", Missing, 0, "", 0)

Key(spider_id, day) == <<spider_id, day>>

Wrote(w, ids, day, f) ==
    [k \in DOMAIN w \cup {Key(i, day) : i \in ids} |->
        IF k \in {Key(i, day) : i \in ids}
        THEN (IF k \in DOMAIN w THEN Append(w[k], f) ELSE <<f>>)
        ELSE w[k]]

(***************************************************************************)
(* Inputs.                                                                 *)
(***************************************************************************)
D1 == <<"2", "0", "2", "4", "-", "0", "2", "-", "2", "9">>
D2 == <<"2", "0", "2", "4", "-", "0", "3", "-", "0", "1">>
BadDay == <<"2", "0", "2", "3", "-", "0", "2", "-", "2", "9">>
GoodDays == {D1, D2}
\* 9 February 2024 without the zero padding, which strptime reads as well
LooseDay == <<"2", "0", "2", "4", "-", "2", "-", "9">>
DayInputs == GoodDays \cup {BadDay}

\* create_batch: the good name with every count, and every name with a good count
GoodName == Str(<<" ", "A", " ">>)
NameInputs == {Missing, Str(<<" ">>), GoodName}
CountInputs ==
    {Missing, Str(<<"x">>), Str(<<"0">>), Str(<<"-", "1">>), Str(<<"2", ".", "5">>),
     Str(<<"1">>), Str(<<" ", "2">>)}
CreateInputs ==
    {[name |-> GoodName, count |-> c] : c \in CountInputs}
      \cup {[name |-> n, count |-> Str(<<"1">>)] : n \in NameInputs}

Form(fed, ate, watered, molting, notes, molts_count, booty) ==
    [fed |-> fed, ate |-> ate, watered |-> watered, molting |-> molting,
     notes |-> notes, molts_count |-> molts_count, booty |-> booty]

\* what a browser posts to save_spiderlog: every value a string, or absent
FormInputs ==
    { Form(YES, YES, NO, NO, Str(<<"n1">>), Str(<<"2">>), Str(<<"6">>)),
      Form(Missing, Missing, Missing, Missing, Missing, Missing, Missing),
      Form(NO, YES, YES, YES, Str(<<"n2">>), Str(<<"x">>), Str(<<"-", "1">>)),
      Form(Str(<<"maybe">>), NO, NO, YES, Str(<<>>), Str(<<" ", "1">>),
           Str(<<"a", "b", "c">>)) }

\* what a client posts to bulk_apply: JSON members of any type
JsonInputs ==
    { Form(YES, NO, YES, NO, Str(<<"n3">>), JInt(1), JInt(0)),
      Form(Missing, Missing, Missing, Missing, Missing, Missing, Missing),
      Form(NO, Str(<<"Y">>), NO, NO, Str(<<"n1">>), JNull, JFloat(25)),
      Form(NO, YES, NO, YES, Str(<<"n2">>), Str(<<"2">>), JInt(7)) }

AForm == CHOOSE f \in FormInputs : f.booty = Str(<<"6">>)
AJson == CHOOSE f \in JsonInputs : f.booty = JInt(0)

GoodColor == Str(<<" ", "#3b82f6", " ">>)
BadColor == Str(<<"#zzzzzz">>)
ColorInputs == {Missing, GoodColor, BadColor}

\* ids handed out so far (live or deleted) and the next one, never handed out
SpiderIdInputs(d) == 1..(d.seq_spiders + 1)
BatchIdInputs(d) == 1..(d.seq_batches + 1)

SaveInputs(d) ==
    {[spider_id |-> i, day |-> day, form |-> form] :
        i \in SpiderIdInputs(d), day \in GoodDays, form \in FormInputs}
      \cup {[spider_id |-> 1, day |-> day, form |-> AForm] : day \in {BadDay, LooseDay}}

\* lists of one id or of two different ids, in increasing order
SpiderIdLists(d) ==
    {JList(<<i>>) : i \in SpiderIdInputs(d)}
      \cup {JList(<<p[1], p[2]>>) :
              p \in {q \in SpiderIdInputs(d) \X SpiderIdInputs(d) : q[1] < q[2]}}

BulkInputs(d) ==
    {[batch_id |-> b, day |-> D1, spider_ids |-> l, data |-> data] :
        b \in BatchIdInputs(d), l \in SpiderIdLists(d), data \in JsonInputs}
      \cup {[batch_id |-> 1, day |-> day, spider_ids |-> l, data |-> AJson] :
              day \in {D1, BadDay}, l \in {Missing, Str(<<"x">>), JList(<<>>), JList(<<1, 1>>)}}

\* an id field of a form: absent, not a number, or the text of an id
IdInputs(ids) ==
    {[id |-> Str(NatText(i)), color |-> c] : i \in ids, c \in ColorInputs}
      \cup {[id |-> v, color |-> GoodColor] : v \in {Missing, Str(<<"x">>)}}

\* /calendar has no year and month; /calendar/<int:year>/<int:month> has both
NoArg == 0
Todays == {Date(2024, 3, 1), Date(2024, 12, 31)}
CalendarInputs ==
    {[year |-> q[1], month |-> q[2], today |-> t] :
        q \in {<<NoArg, NoArg>>, <<2024, 2>>, <<2024, 12>>, <<2024, 13>>},
        t \in Todays}

Threads == {"t1", "t2"}

\* a thread's request and the locals of its handler; seen is a ghost: how many
\* committed writes its key had when the handler read the store
Local(op, in) == [op |-> op, in |-> in, ids |-> {}, batch_id |-> 0, seen |-> 0]
NoLoc == Local("none", Missing)

(***************************************************************************)
(* The sequential specification: one client, one request at a time.  Each  *)
(* action is a whole request: the before_request guard, then the handler.  *)
(***************************************************************************)
Init ==
    /\ db = EmptyDb
    /\ session = [last_batch |-> NoBatch]
    /\ req = NoReq
    /\ writes = <<>>
    /\ nreq = 0
    /\ db_inited = FALSE
    /\ init_lock = NoThread
    /\ init_runs = 0
    /\ pc = [t \in Threads |-> "idle"]
    /\ loc = [t \in Threads |-> NoLoc]
    /\ wlock = NoThread
    /\ pending = [t \in Threads |-> EmptyDb]

\* _startup_guard with no other thread around: init_db_once runs on the first request
Booted(d) == IF db_inited THEN d ELSE InitSchema(d)

Serve(r, d, s, w) ==
    /\ nreq' = nreq + 1
    /\ req' = r
    /\ db' = d
    /\ session' = s
    /\ writes' = w
    /\ db_inited' = TRUE
    /\ init_runs' = IF db_inited THEN init_runs ELSE init_runs + 1
    /\ UNCHANGED <<init_lock, pc, loc, wlock, pending>>

\* a faulty create_batch that lets a count of zero through
create_batch_accepting_zero(nameV, countV) ==
    LET in == [name |-> nameV, count |-> countV]
        name == Strip(OrEmpty(nameV))
        count_raw == Strip(OrEmpty(countV))
        count == IntOr(Str(count_raw), 0)
        d0 == Booted(db)
        d1 == InsertBatch(d0, name)
        batch_id == d1.seq_batches
        d2 == InsertSpiders(d1, batch_id, 1, count)
    IN  IF name = <<>> \/ count < 0
        THEN Serve(Resp("create_batch", in, 302, "batches", 0), d0, session, writes)
        ELSE Serve(Resp("create_batch", in, 302, "batch_view", batch_id), d2,
                   [session EXCEPT !.last_batch = batch_id], writes)

create_batch(nameV, countV) ==
    LET in == [name |-> nameV, count |-> countV]
        name == Strip(OrEmpty(nameV))
        count_raw == Strip(OrEmpty(countV))
        count == IntOr(Str(count_raw), 0)
        d0 == Booted(db)
        d1 == InsertBatch(d0, name)
        batch_id == d1.seq_batches
        d2 == InsertSpiders(d1, batch_id, 1, count)
    IN  IF name = <<>> \/ count < 1
        THEN Serve(Resp("create_batch", in, 302, "batches", 0), d0, session, writes)
        ELSE Serve(Resp("create_batch", in, 302, "batch_view", batch_id), d2,
                   [session EXCEPT !.last_batch = batch_id], writes)

delete_batch(batch_id) ==
    LET d0 == Booted(db)
        spider_ids == SpiderIdsOfBatch(d0, batch_id)
        d1 == DeleteBatchRows(d0, batch_id, spider_ids)
    IN  Serve(Resp("delete_batch", [batch_id |-> batch_id], 302, "batches", 0), d1,
              IF session.last_batch = batch_id
              THEN [session EXCEPT !.last_batch = NoBatch] ELSE session,
              writes)

save_spiderlog(spider_id, day, form) ==
    LET in == [spider_id |-> spider_id, day |-> day, form |-> form]
        f == FormFields(form)
        d0 == Booted(db)
        row == SpiderRows(d0, spider_id)
        batch_id == (CHOOSE s \in row : TRUE).batch_id
    IN  IF ~strptime_ok(day) \/ row = {}
        THEN Serve(Resp("save_spiderlog", in, 404, "not found", 0), d0, session, writes)
        ELSE Serve(Resp("save_spiderlog", in, 302, "batch_view_day", batch_id),
                   [d0 EXCEPT !.spiderlog = UpsertLog(@, LogRow(spider_id, day, f))],
                   session, Wrote(writes, {spider_id}, day, f))

\* a faulty bulk_apply that falls back to every spider of the batch when none of
\* the submitted ids is one
bulk_apply_defaulting(batch_id, day, idsV, data) ==
    LET in == [batch_id |-> batch_id, day |-> day, spider_ids |-> idsV, data |-> data]
        spider_ids == SpiderIdsArg(idsV)
        f == JsonFields(data)
        d0 == Booted(db)
        picked == ValidIds(d0, batch_id, spider_ids.l)
        valid_ids == IF picked = {} THEN SpiderIdsOfBatch(d0, batch_id) ELSE picked
    IN  IF ~strptime_ok(day)
        THEN Serve(Resp("bulk_apply", in, 400, "bad day", 0), d0, session, writes)
        ELSE IF valid_ids = {}
        THEN Serve(Resp("bulk_apply", in, 400, "no valid spiders", 0), d0, session,
                   writes)
        ELSE Serve(Resp("bulk_apply", in, 200, "ok", Cardinality(valid_ids)),
                   [d0 EXCEPT !.spiderlog = UpsertLogs(@, valid_ids, day, f)],
                   session, Wrote(writes, valid_ids, day, f))

bulk_apply(batch_id, day, idsV, data) ==
    LET in == [batch_id |-> batch_id, day |-> day, spider_ids |-> idsV, data |-> data]
        spider_ids == SpiderIdsArg(idsV)
        f == JsonFields(data)
        d0 == Booted(db)
        valid_ids == ValidIds(d0, batch_id, spider_ids.l)
    IN  IF ~strptime_ok(day)
        THEN Serve(Resp("bulk_apply", in, 400, "bad day", 0), d0, session, writes)
        ELSE IF spider_ids.k # "list" \/ spider_ids.l = <<>>
        THEN Serve(Resp("bulk_apply", in, 400, "no spiders selected", 0), d0, session,
                   writes)
        ELSE IF valid_ids = {}
        THEN Serve(Resp("bulk_apply", in, 400, "no valid spiders", 0), d0, session,
                   writes)
        ELSE Serve(Resp("bulk_apply", in, 200, "ok", Cardinality(valid_ids)),
                   [d0 EXCEPT !.spiderlog = UpsertLogs(@, valid_ids, day, f)],
                   session, Wrote(writes, valid_ids, day, f))

\* a faulty set_highlight that stores any colour
set_highlight_unchecked(idV, colorV) ==
    LET in == [spider_id |-> idV, color |-> colorV]
        sid == PyInt(Get(idV, Str(<<"0">>)))
        color == Strip(OrEmpty(colorV))
        d0 == Booted(db)
    IN  IF ~sid.ok
        THEN Serve(Resp("set_highlight", in, 400, "bad spider_id", 0), d0, session,
                   writes)
        ELSE Serve(Resp("set_highlight", in, 200, "ok", 0),
                   [d0 EXCEPT !.highlights = UpsertHighlight(@, sid.val, color)],
                   session, writes)

set_highlight(idV, colorV) ==
    LET in == [spider_id |-> idV, color |-> colorV]
        sid == PyInt(Get(idV, Str(<<"0">>)))
        color == Strip(OrEmpty(colorV))
        d0 == Booted(db)
    IN  IF ~sid.ok
        THEN Serve(Resp("set_highlight", in, 400, "bad spider_id", 0), d0, session,
                   writes)
        ELSE IF color # <<>> /\ color \notin COLOR_OPTIONS
        THEN Serve(Resp("set_highlight", in, 400, "bad color", 0), d0, session, writes)
        ELSE Serve(Resp("set_highlight", in, 200, "ok", 0),
                   [d0 EXCEPT !.highlights = UpsertHighlight(@, sid.val, color)],
                   session, writes)

set_last_fed(idV, colorV) ==
    LET in == [batch_id |-> idV, color |-> colorV]
        bid == PyInt(Get(idV, Str(<<"0">>)))
        color == Strip(OrEmpty(colorV))
        d0 == Booted(db)
    IN  IF ~bid.ok
        THEN Serve(Resp("set_last_fed", in, 400, "bad batch_id", 0), d0, session,
                   writes)
        ELSE IF color # <<>> /\ color \notin COLOR_OPTIONS
        THEN Serve(Resp("set_last_fed", in, 400, "bad color", 0), d0, session, writes)
        ELSE Serve(Resp("set_last_fed", in, 200, "ok", 0),
                   [d0 EXCEPT !.batches = UpdateLastFed(@, bid.val, color)],
                   session, writes)

calendar_view(yearV, monthV, today) ==
    LET in == [year |-> yearV, month |-> monthV, today |-> today]
        year == IF yearV # NoArg THEN yearV ELSE today.y
        month == IF monthV # NoArg THEN monthV ELSE today.m
        d0 == Booted(db)
        weeks == monthdatescalendar(year, month)
        batch_id == get_last_batch_id(session, d0)
        start == isoformat(weeks[1])
        end == isoformat(weeks[Len(weeks)])
        has_data_days ==
            IF batch_id # NoBatch /\ weeks # <<>>
            THEN DaysQuery(d0, start, end, batch_id) ELSE {}
    IN  IF month \notin 1..12
        THEN Serve(Resp("calendar_view", in, 500, "IllegalMonthError", 0), d0, session,
                   writes)
        ELSE Serve(Page("calendar_view", in, "calendar.html",
                        Ctx(weeks, has_data_days, batch_id)),
                   d0, session, writes)

\* the request budget is tested before the inputs are drawn
Budget == nreq < MaxOps

Next ==
    \/ Budget /\ \E r \in CreateInputs : create_batch(r.name, r.count)
    \/ Budget /\ \E b \in BatchIdInputs(db) : delete_batch(b)
    \/ Budget /\ \E r \in SaveInputs(db) : save_spiderlog(r.spider_id, r.day, r.form)
    \/ Budget /\ \E r \in BulkInputs(db) :
                    bulk_apply(r.batch_id, r.day, r.spider_ids, r.data)
    \/ Budget /\ \E r \in IdInputs(SpiderIdInputs(db)) : set_highlight(r.id, r.color)
    \/ Budget /\ \E r \in IdInputs(BatchIdInputs(db)) : set_last_fed(r.id, r.color)
    \/ Budget /\ \E r \in CalendarInputs : calendar_view(r.year, r.month, r.today)

Spec == Init /\ [][Next]_vars

(***************************************************************************)
(* The threaded specification: the server's threads serve requests side by *)
(* side.  A step is one read of shared memory, one lock operation, or the  *)
(* statements a connection runs between two points where another          *)
(* connection can see or change the file: a SELECT outside a transaction   *)
(* reads the committed file; the first INSERT/UPDATE/DELETE opens the      *)
(* transaction and takes SQLite's write lock, which commit() releases.     *)
(***************************************************************************)
ThreadForms == {f \in FormInputs : f.notes \in {Str(<<"n1">>), Str(<<"n2">>)}}

ThreadInputs ==
    {Local("create_batch", [name |-> GoodName, count |-> Str(<<" ", "2">>)]),
     Local("delete_batch", [batch_id |-> 1]),
     Local("bulk_apply", [batch_id |-> 1, day |-> D1, spider_ids |-> JList(<<1, 2>>),
                          data |-> AJson]),
     Local("set_highlight", [spider_id |-> Str(<<"1">>), color |-> GoodColor])}
      \cup {Local("save_spiderlog", [spider_id |-> 1, day |-> D1, form |-> f]) :
              f \in ThreadForms}

Goto(t, where) == pc' = [pc EXCEPT ![t] = where]

\* the response leaves the thread
Finish(t, code, body, n) ==
    /\ req' = Resp(loc[t].op, loc[t].in, code, body, n)
    /\ Goto(t, "idle")

Arrive(t, r) ==
    /\ pc[t] = "idle"
    /\ nreq < MaxArrivals
    /\ nreq' = nreq + 1
    /\ loc' = [loc EXCEPT ![t] = r]
    /\ Goto(t, "guard")
    /\ UNCHANGED <<db, session, req, writes, db_inited, init_lock, init_runs, wlock,
                   pending>>

\* init_db_once, line 56: the unlocked look at _db_inited
GuardCheck(t) ==
    /\ pc[t] = "guard"
    /\ Goto(t, IF db_inited THEN "handler" ELSE "lock")
    /\ UNCHANGED <<db, session, req, writes, nreq, db_inited, init_lock, init_runs,
                   loc, wlock, pending>>

\* a faulty guard that does not wait for a held lock but goes on to the handler
GuardLockNotWaiting(t) ==
    /\ pc[t] = "lock"
    /\ IF init_lock = NoThread
       THEN init_lock' = t /\ Goto(t, "recheck")
       ELSE init_lock' = init_lock /\ Goto(t, "handler")
    /\ UNCHANGED <<db, session, req, writes, nreq, db_inited, init_runs, loc, wlock,
                   pending>>

\* line 59: with _db_init_lock
GuardLock(t) ==
    /\ pc[t] = "lock"
    /\ init_lock = NoThread
    /\ init_lock' = t
    /\ Goto(t, "recheck")
    /\ UNCHANGED <<db, session, req, writes, nreq, db_inited, init_runs, loc, wlock,
                   pending>>

\* a faulty guard without the second look
GuardRecheckSkipped(t) ==
    /\ pc[t] = "recheck"
    /\ Goto(t, "schema")
    /\ UNCHANGED <<db, session, req, writes, nreq, db_inited, init_lock, init_runs,
                   loc, wlock, pending>>

\* line 60: the second look, under the lock; returning releases the lock
GuardRecheck(t) ==
    /\ pc[t] = "recheck"
    /\ IF db_inited
       THEN init_lock' = NoThread /\ Goto(t, "handler")
       ELSE init_lock' = init_lock /\ Goto(t, "schema")
    /\ UNCHANGED <<db, session, req, writes, nreq, db_inited, init_runs, loc, wlock,
                   pending>>

\* lines 63-115: the schema statements and the commit
InitBody(t) ==
    /\ pc[t] = "schema"
    /\ wlock = NoThread
    /\ db' = InitSchema(db)
    /\ init_runs' = init_runs + 1
    /\ Goto(t, "flag")
    /\ UNCHANGED <<session, req, writes, nreq, db_inited, init_lock, loc, wlock,
                   pending>>

\* a statement of the body raises: the with blocks unwind, the request fails
InitRaises(t) ==
    /\ pc[t] = "schema"
    /\ init_lock' = NoThread
    /\ Finish(t, 500, "init error", 0)
    /\ UNCHANGED <<db, session, writes, nreq, db_inited, init_runs, loc, wlock,
                   pending>>

\* line 117: _db_inited = True, still under the lock
SetFlag(t) ==
    /\ pc[t] = "flag"
    /\ db_inited' = TRUE
    /\ Goto(t, "unlock")
    /\ UNCHANGED <<db, session, req, writes, nreq, init_lock, init_runs, loc, wlock,
                   pending>>

\* leaving the with block of line 59
GuardUnlock(t) ==
    /\ pc[t] = "unlock"
    /\ init_lock' = NoThread
    /\ Goto(t, "handler")
    /\ UNCHANGED <<db, session, req, writes, nreq, db_inited, init_runs, loc, wlock,
                   pending>>

SeenOf(k) == IF k \in DOMAIN writes THEN Len(writes[k]) ELSE 0

\* the handler up to its first write: validation and the SELECT, if it has one
Reject(t, code, body) ==
    /\ Finish(t, code, body, 0)
    /\ UNCHANGED loc

Proceed(t, ids, batch_id, seen) ==
    /\ loc' = [loc EXCEPT ![t].ids = ids, ![t].batch_id = batch_id, ![t].seen = seen]
    /\ Goto(t, "write")
    /\ UNCHANGED req

ReadCreate(t) ==
    LET in == loc[t].in
        name == Strip(OrEmpty(in.name))
        count == IntOr(Str(Strip(OrEmpty(in.count))), 0)
    IN  IF name = <<>> \/ count < 1
        THEN Reject(t, 302, "batches")
        ELSE Proceed(t, {}, 0, 0)

ReadDelete(t) == Proceed(t, SpiderIdsOfBatch(db, loc[t].in.batch_id), 0, 0)

ReadSave(t) ==
    LET in == loc[t].in
        row == SpiderRows(db, in.spider_id)
    IN  IF ~strptime_ok(in.day) \/ row = {}
        THEN Reject(t, 404, "not found")
        ELSE Proceed(t, {in.spider_id}, (CHOOSE s \in row : TRUE).batch_id,
                     SeenOf(Key(in.spider_id, in.day)))

ReadBulk(t) ==
    LET in == loc[t].in
        spider_ids == SpiderIdsArg(in.spider_ids)
        valid_ids == ValidIds(db, in.batch_id, spider_ids.l)
    IN  IF ~strptime_ok(in.day)
        THEN Reject(t, 400, "bad day")
        ELSE IF spider_ids.k # "list" \/ spider_ids.l = <<>>
        THEN Reject(t, 400, "no spiders selected")
        ELSE IF valid_ids = {}
        THEN Reject(t, 400, "no valid spiders")
        ELSE Proceed(t, valid_ids, 0,
                     SeenOf(Key(CHOOSE i \in valid_ids : \A j \in valid_ids : i <= j,
                                in.day)))

ReadHighlight(t) ==
    LET in == loc[t].in
        sid == PyInt(Get(in.spider_id, Str(<<"0">>)))
        color == Strip(OrEmpty(in.color))
    IN  IF ~sid.ok
        THEN Reject(t, 400, "bad spider_id")
        ELSE IF color # <<>> /\ color \notin COLOR_OPTIONS
        THEN Reject(t, 400, "bad color")
        ELSE Proceed(t, {sid.val}, 0, 0)

Read(t) ==
    /\ pc[t] = "handler"
    /\ CASE loc[t].op = "create_batch" -> ReadCreate(t)
         [] loc[t].op = "delete_batch" -> ReadDelete(t)
         [] loc[t].op = "save_spiderlog" -> ReadSave(t)
         [] loc[t].op = "bulk_apply" -> ReadBulk(t)
         [] loc[t].op = "set_highlight" -> ReadHighlight(t)
    /\ UNCHANGED <<db, session, writes, nreq, db_inited, init_lock, init_runs, wlock,
                   pending>>

\* the file after the handler's statements, run on the file as it is now
Image(t) ==
    LET in == loc[t].in
    IN  CASE loc[t].op = "create_batch" ->
                LET d1 == InsertBatch(db, Strip(OrEmpty(in.name)))
                IN  InsertSpiders(d1, d1.seq_batches, 1,
                                  IntOr(Str(Strip(OrEmpty(in.count))), 0))
          [] loc[t].op = "delete_batch" -> DeleteBatchRows(db, in.batch_id, loc[t].ids)
          [] loc[t].op = "save_spiderlog" ->
                [db EXCEPT !.spiderlog =
                    UpsertLog(@, LogRow(in.spider_id, in.day, FormFields(in.form)))]
          [] loc[t].op = "bulk_apply" ->
                [db EXCEPT !.spiderlog =
                    UpsertLogs(@, loc[t].ids, in.day, JsonFields(in.data))]
          [] loc[t].op = "set_highlight" ->
                [db EXCEPT !.highlights =
                    UpsertHighlight(@, CHOOSE i \in loc[t].ids : TRUE,
                                    Strip(OrEmpty(in.color)))]

\* a faulty store whose writers do not exclude each other
WriteLockIgnored == TRUE

\* SQLite grants the write lock to one connection at a time
WriteLockFree == wlock = NoThread

\* the first INSERT/UPDATE/DELETE takes the write lock; the rest of the handler's
\* statements run in the same transaction, unseen by the other connections
Write(t) ==
    /\ pc[t] = "write"
    /\ WriteLockFree
    /\ wlock' = t
    /\ pending' = [pending EXCEPT ![t] = Image(t)]
    /\ Goto(t, "commit")
    /\ UNCHANGED <<db, session, req, writes, nreq, db_inited, init_lock, init_runs,
                   loc>>

\* connect(timeout=30): the lock stayed taken, sqlite3 raises "database is locked"
Busy(t) ==
    /\ pc[t] = "write"
    /\ wlock # NoThread
    /\ Finish(t, 500, "error", 0)
    /\ UNCHANGED <<db, session, writes, nreq, db_inited, init_lock, init_runs, loc,
                   wlock, pending>>

\* conn.commit(), then what the handler does after its with block
Commit(t) ==
    LET in == loc[t].in
        op == loc[t].op
    IN  /\ pc[t] = "commit"
        /\ db' = pending[t]
        /\ wlock' = NoThread
        /\ pending' = [pending EXCEPT ![t] = EmptyDb]
        /\ writes' = CASE op = "save_spiderlog" ->
                            Wrote(writes, loc[t].ids, in.day, FormFields(in.form))
                       [] op = "bulk_apply" ->
                            Wrote(writes, loc[t].ids, in.day, JsonFields(in.data))
                       [] OTHER -> writes
        /\ session' = CASE op = "create_batch" ->
                             [session EXCEPT !.last_batch = pending[t].seq_batches]
                        [] op = "delete_batch" /\ session.last_batch = in.batch_id ->
                             [session EXCEPT !.last_batch = NoBatch]
                        [] OTHER -> session
        /\ CASE op = "create_batch" -> Finish(t, 302, "batch_view", pending[t].seq_batches)
             [] op = "delete_batch" -> Finish(t, 302, "batches", 0)
             [] op = "save_spiderlog" -> Finish(t, 302, "batch_view_day", loc[t].batch_id)
             [] op = "bulk_apply" -> Finish(t, 200, "ok", Cardinality(loc[t].ids))
             [] op = "set_highlight" -> Finish(t, 200, "ok", 0)
        /\ UNCHANGED <<nreq, db_inited, init_lock, init_runs, loc>>

NextThreads ==
    \/ \E t \in Threads, r \in ThreadInputs : Arrive(t, r)
    \/ \E t \in Threads : GuardCheck(t)
    \/ \E t \in Threads : GuardLock(t)
    \/ \E t \in Threads : GuardRecheck(t)
    \/ \E t \in Threads : InitBody(t)
    \/ \E t \in Threads : InitRaises(t)
    \/ \E t \in Threads : SetFlag(t)
    \/ \E t \in Threads : GuardUnlock(t)
    \/ \E t \in Threads : Read(t)
    \/ \E t \in Threads : Write(t)
    \/ \E t \in Threads : Busy(t)
    \/ \E t \in Threads : Commit(t)

SpecThreads == Init /\ [][NextThreads]_vars

(***************************************************************************)
(* Properties of the sequential specification.                             *)
(***************************************************************************)
RowFields(r) ==
    [fed |-> r.fed, ate |-> r.ate, watered |-> r.watered, molting |-> r.molting,
     notes |-> r.notes, molts_count |-> r.molts_count, booty |-> r.booty]

Last(seq) == seq[Len(seq)]

LiveSpider(d, i) == \E s \in d.spiders : s.id = i

\* C1: the spiderlog table holds at most one row per (spider_id, day), the row of a
\* key carries in every field the values of the most recent call that wrote the key,
\* and a written key of a spider that still exists has its row.
C1_LastWriteWins ==
    /\ \A r1 \in db.spiderlog : \A r2 \in db.spiderlog : SameKey(r1, r2) => r1 = r2
    /\ \A r \in db.spiderlog :
          /\ Key(r.spider_id, r.day) \in DOMAIN writes
          /\ RowFields(r) = Last(writes[Key(r.spider_id, r.day)])
    /\ \A k \in DOMAIN writes :
          LiveSpider(db, k[1]) =>
              \E r \in db.spiderlog : r.spider_id = k[1] /\ r.day = k[2]

\* a key written twice with different values, whose one row shows the second call
C1_Witness ==
    \E k \in DOMAIN writes :
        /\ Len(writes[k]) >= 2
        /\ writes[k][1] # writes[k][2]
        /\ \E r \in db.spiderlog :
              /\ r.spider_id = k[1] /\ r.day = k[2]
              /\ RowFields(r) = writes[k][2]

\* C2: a create_batch with a non-empty name and a count >= 1 is accepted, adds one
\* batch row and exactly count spiders of that batch numbered 1..count; and
\* (batch_id, number) identifies at most one spider in every state.
C2_CreateBatch ==
    [][ /\ req'.op = "create_batch" =>
            LET name == Strip(OrEmpty(req'.in.name))
                c == IntOfText(OrEmpty(req'.in.count))
                new == db'.spiders \ db.spiders
            IN  (name # <<>> /\ c.ok /\ c.val >= 1) =>
                  /\ req'.body = "batch_view"
                  /\ Cardinality(db'.batches \ db.batches) = 1
                  /\ db.batches \subseteq db'.batches
                  /\ \A b \in db'.batches \ db.batches : b.id = req'.n /\ b.name = name
                  /\ ~\E b \in db.batches : b.id = req'.n
                  /\ db.spiders \subseteq db'.spiders
                  /\ Cardinality(new) = c.val
                  /\ \A s \in new : s.batch_id = req'.n
                  /\ {s.number : s \in new} = 1..c.val
                  /\ SpidersQuery(db', req'.n) = new
        /\ \A s1 \in db'.spiders : \A s2 \in db'.spiders :
              (s1.batch_id = s2.batch_id /\ s1.number = s2.number) => s1 = s2
      ]_vars

\* a second batch was just created with two spiders
C2_Witness ==
    /\ req.op = "create_batch"
    /\ req.body = "batch_view"
    /\ Cardinality(db.batches) = 2
    /\ {s.number : s \in SpidersQuery(db, req.n)} = {1, 2}

AllDays(d) == DayInputs \cup {r.day : r \in d.spiderlog}

\* C3: right after delete_batch(id) the batch row is gone, no spider has that
\* batch_id, no spiderlog or highlights row references a spider the batch had, and
\* every query scoped to the batch is empty.
C3_DeleteBatch ==
    [][ req'.op = "delete_batch" =>
            LET b == req'.in.batch_id
                former == SpiderIdsOfBatch(db, b)
            IN  /\ ~\E x \in db'.batches : x.id = b
                /\ ~\E s \in db'.spiders : s.batch_id = b
                /\ ~\E r \in db'.spiderlog : r.spider_id \in former
                /\ ~\E h \in db'.highlights : h.spider_id \in former
                /\ BatchQuery(db', b) = {}
                /\ SpidersQuery(db', b) = {}
                /\ HighlightsQuery(db', b) = {}
                /\ CountQuery(db', b) = 0
                /\ \A day \in AllDays(db) : LogsQuery(db', b, day) = {}
      ]_vars

\* a batch whose spider had a log row was just deleted
C3_Witness ==
    /\ req.op = "delete_batch"
    /\ \E k \in DOMAIN writes : ~LiveSpider(db, k[1])
    /\ ~\E x \in db.batches : x.id = req.in.batch_id

\* the log request handled last, when it wrote: its day, its submitted field values
\* and the spiders it wrote
LogWritten ==
    \/ req.op = "save_spiderlog" /\ req.code = 302
    \/ req.op = "bulk_apply" /\ req.code = 200

Submitted == IF req.op = "save_spiderlog" THEN req.in.form ELSE req.in.data

Targets ==
    IF req.op = "save_spiderlog" THEN {req.in.spider_id}
    ELSE {req.in.spider_ids.l[i] : i \in 1..Len(req.in.spider_ids.l)}
           \cap SpiderIdsOfBatch(db, req.in.batch_id)

WrittenRows == {r \in db.spiderlog : r.day = req.in.day /\ r.spider_id \in Targets}

\* an input that is an integer: a JSON integer, or text that int() reads
IsInteger(v) == v.k = "int" \/ (v.k = "str" /\ IntOfText(v.s).ok)
IntegerOf(v) == IF v.k = "int" THEN v.n ELSE IntOfText(v.s).val

BootyInRange == \A r \in db.spiderlog : r.booty \in 1..5

\* C4 as claimed: every stored booty is in 1..5, an integer input b is stored as
\* min(5, max(1, b)), and 3 is stored for an input that is missing or not an integer.
C4_ClampOrThree ==
    /\ BootyInRange
    /\ LogWritten =>
          /\ WrittenRows # {}
          /\ \A r \in WrittenRows :
                r.booty = IF IsInteger(Submitted.booty)
                          THEN Min(5, Max(1, IntegerOf(Submitted.booty)))
                          ELSE 3

\* C4 amended: every stored booty is in 1..5, an integer input b is stored as
\* min(5, max(1, b)), a JSON float is truncated toward zero and then clamped, and 3
\* is stored for an input that is missing, null or text that int() rejects.
C4_ClampTruncOrThree ==
    /\ BootyInRange
    /\ LogWritten =>
          /\ WrittenRows # {}
          /\ \A r \in WrittenRows :
                r.booty = IF IsInteger(Submitted.booty)
                          THEN Min(5, Max(1, IntegerOf(Submitted.booty)))
                          ELSE IF Submitted.booty.k = "float"
                          THEN Min(5, Max(1, Trunc(Submitted.booty.n)))
                          ELSE 3

\* a row just stored as 5 from an input above 5, beside a row stored as 1
C4_Witness ==
    /\ LogWritten
    /\ IsInteger(Submitted.booty) /\ IntegerOf(Submitted.booty) > 5
    /\ \E r \in WrittenRows : r.booty = 5
    /\ \E r \in db.spiderlog : r.booty = 1

\* C5: fed, ate, watered and molting of every spiderlog row are "yes" or "no".
C5_YesNoOnly ==
    \A r \in db.spiderlog :
        /\ r.fed \in {YES, NO}
        /\ r.ate \in {YES, NO}
        /\ r.watered \in {YES, NO}
        /\ r.molting \in {YES, NO}

IdList(v) == IF v.k = "list" THEN {v.l[i] : i \in 1..Len(v.l)} ELSE {}

HistoryGrew(k) ==
    /\ k \in DOMAIN writes'
    /\ Len(writes'[k]) = (IF k \in DOMAIN writes THEN Len(writes[k]) ELSE 0) + 1

\* C6: bulk_apply creates or changes spiderlog rows only for the submitted ids that
\* are spiders of the stated batch, on the stated day; when it answers 200 it wrote
\* each of them once and the reported count is their number.
C6_BulkOnlyOwnBatch ==
    [][ req'.op = "bulk_apply" =>
            LET in == req'.in
                owned == IdList(SpiderIdsArg(in.spider_ids))
                           \cap SpiderIdsOfBatch(db, in.batch_id)
                touched == (db'.spiderlog \ db.spiderlog) \cup (db.spiderlog \ db'.spiderlog)
            IN  /\ \A r \in touched : r.spider_id \in owned /\ r.day = in.day
                /\ \A k \in DOMAIN writes' :
                      (k \notin DOMAIN writes \/ writes'[k] # writes[k]) =>
                          k[1] \in owned /\ k[2] = in.day
                /\ req'.code = 200 =>
                      /\ req'.n = Cardinality(owned)
                      /\ owned # {}
                      /\ \A i \in owned :
                            /\ HistoryGrew(Key(i, in.day))
                            /\ \E r \in db'.spiderlog : r.spider_id = i /\ r.day = in.day
      ]_vars

\* a list of one spider of batch A and one of batch B, applied to A, reported count 1
C6_Witness ==
    /\ req.op = "bulk_apply"
    /\ req.code = 200
    /\ req.n = 1
    /\ Len(req.in.spider_ids.l) = 2
    /\ \A i \in IdList(req.in.spider_ids) : LiveSpider(db, i)
    /\ \E i \in IdList(req.in.spider_ids) : i \notin SpiderIdsOfBatch(db, req.in.batch_id)
    /\ Cardinality(db.spiderlog) = 1

\* C7: set_highlight with a non-empty colour outside the palette answers 400 and
\* leaves the highlights table as it was; every stored colour is empty or in the
\* palette.
C7_BadColorRejected ==
    [][ /\ req'.op = "set_highlight" =>
            LET color == Strip(OrEmpty(req'.in.color))
            IN  (color # <<>> /\ color \notin COLOR_OPTIONS) =>
                    req'.code = 400 /\ db'.highlights = db.highlights
        /\ \A h \in db'.highlights : h.color = <<>> \/ h.color \in COLOR_OPTIONS
      ]_vars

\* a bad colour was just refused for a spider that keeps its stored palette colour
C7_Witness ==
    /\ req.op = "set_highlight"
    /\ req.body = "bad color"
    /\ \E h \in db.highlights :
          /\ h.spider_id = IntOfText(req.in.spider_id.s).val
          /\ h.color \in COLOR_OPTIONS

SameTables(d, e) ==
    /\ d.batches = e.batches
    /\ d.spiders = e.spiders
    /\ d.highlights = e.highlights
    /\ d.spiderlog = e.spiderlog

\* C10: save_spiderlog and set_highlight on a spider id that does not exist, and
\* set_last_fed on a batch id that does not exist, answer 404 and write no row.
C10_UnknownIdIsNotFound ==
    [][ LET unknown ==
                \/ /\ req'.op = "save_spiderlog"
                   /\ ~LiveSpider(db, req'.in.spider_id)
                \/ /\ req'.op = "set_highlight"
                   /\ LET id == PyInt(Get(req'.in.spider_id, Str(<<"0">>)))
                      IN  id.ok /\ ~LiveSpider(db, id.val)
                \/ /\ req'.op = "set_last_fed"
                   /\ LET id == PyInt(Get(req'.in.batch_id, Str(<<"0">>)))
                      IN  id.ok /\ BatchQuery(db, id.val) = {}
        IN  unknown => req'.code = 404 /\ SameTables(db', db)
      ]_vars

\* text that is empty or made of white space only
Blank(s) == \A i \in 1..Len(s) : IsSpace(s[i])

\* the form of a create_batch request that the handler must refuse: no name, a
\* blank name, or a count that is absent, not an integer, or below 1
RefusedCreate(in) ==
    \/ in.name.k # "str"
    \/ Blank(in.name.s)
    \/ ~IsInteger(in.count)
    \/ IntegerOf(in.count) < 1

\* C11: create_batch with an empty or blank name, or with a count that is not an
\* integer or is below 1, leaves the batches table, the spiders table and the
\* session's last_batch as they were.
C11_BadCreateWritesNothing ==
    [][ (req'.op = "create_batch" /\ RefusedCreate(req'.in)) =>
            /\ db'.batches = db.batches
            /\ db'.spiders = db.spiders
            /\ db'.seq_batches = db.seq_batches
            /\ db'.seq_spiders = db.seq_spiders
            /\ session' = session
      ]_vars

\* a create_batch with a good name and the count "2.5" was just refused on a store
\* that already holds a batch, which is still the session's last batch
C11_Witness ==
    /\ req.op = "create_batch"
    /\ ~Blank(req.in.name.s)
    /\ req.in.count = Str(<<"2", ".", "5">>)
    /\ req.body = "batches"
    /\ db.batches # {}
    /\ session.last_batch # NoBatch

\* the submitted ids that are spiders of the stated batch in store d
OwnTargets(d, in) ==
    {i \in IdList(in.spider_ids) :
        \E s \in d.spiders : s.id = i /\ s.batch_id = in.batch_id}

\* C12: bulk_apply answers with an error and leaves the spiderlog table as it was
\* whenever none of the submitted ids is a spider of the stated batch: spider_ids
\* absent, empty or not a list, ids of other batches only, or an unknown batch.
C12_NoTargetsIsAnError ==
    [][ (req'.op = "bulk_apply" /\ OwnTargets(db, req'.in) = {}) =>
            /\ req'.code = 400
            /\ db'.spiderlog = db.spiderlog
            /\ writes' = writes
      ]_vars

\* a bulk_apply for a well-formed day, naming a batch that does not exist and a
\* spider that does, was just refused, and the rows stored before it are there
C12_Witness ==
    /\ req.op = "bulk_apply"
    /\ req.body = "no valid spiders"
    /\ BatchQuery(db, req.in.batch_id) = {}
    /\ IdList(req.in.spider_ids) # {}
    /\ \A i \in IdList(req.in.spider_ids) : LiveSpider(db, i)
    /\ db.spiderlog # {}

\* the dates of the grid that calendar_view displayed, as the template writes them
GridDates == {isoformat(req.ctx.weeks[i]) : i \in 1..Len(req.ctx.weeks)}

\* C13: the days that calendar_view marks are dates of the month grid it displays,
\* and a day is marked only if a spider of the current batch has a spiderlog row
\* of that day; this for every day text that the log handlers accepted.
C13_MarkedDaysInGrid ==
    (req.op = "calendar_view" /\ req.code = 200) =>
        /\ req.ctx.has_data_days \subseteq GridDates
        /\ \A day \in req.ctx.has_data_days :
              \E r \in db.spiderlog :
                  /\ r.day = day
                  /\ r.spider_id \in SpiderIdsOfBatch(db, req.ctx.batch_id)

(***************************************************************************)
(* Properties of the threaded specification.                               *)
(***************************************************************************)
\* the threads inside the section that _db_init_lock guards
InGuarded == {t \in Threads : pc[t] \in {"recheck", "schema", "flag", "unlock"}}

\* C8: the body of init_db_once runs to completion at most once, two threads are
\* never inside the guarded section together, and no thread is in the body once
\* _db_inited is set.
C8_InitOnce ==
    /\ init_runs <= 1
    /\ Cardinality(InGuarded) <= 1
    /\ \A t \in InGuarded : init_lock = t
    /\ db_inited => init_runs = 1
    /\ db_inited => \A t \in Threads : pc[t] \notin {"schema", "flag"}

\* a thread that passed the unlocked look before the flag was set now holds the
\* lock and finds the flag set by the thread that ran the body
C8_Witness ==
    /\ db_inited
    /\ init_runs = 1
    /\ \E t \in Threads : pc[t] = "recheck"

LogKey(l) == Key(CHOOSE i \in l.ids : \A j \in l.ids : i <= j, l.in.day)

\* C9: whatever the interleaving, the committed file and every open transaction
\* hold at most one row per key, a committed row is in every field the row of the
\* request that committed to its key last, and no committed write to a spider that
\* still exists is lost.
C9_LastCommitWins ==
    /\ \A d \in {db} \cup {pending[t] : t \in Threads} :
          \A r1 \in d.spiderlog : \A r2 \in d.spiderlog : SameKey(r1, r2) => r1 = r2
    /\ \A r \in db.spiderlog :
          LET k == Key(r.spider_id, r.day)
          IN  /\ k \in DOMAIN writes
              /\ RowFields(r) \in {writes[k][i] : i \in 1..Len(writes[k])}
              /\ RowFields(r) = writes[k][Len(writes[k])]
    /\ \A k \in DOMAIN writes :
          LiveSpider(db, k[1]) =>
              Cardinality({r \in db.spiderlog : r.spider_id = k[1] /\ r.day = k[2]}) = 1

\* both threads read the store before either committed, both then committed
\* different values to one key, and the key's row is the later commit's
C9_Witness ==
    \E t \in Threads : \E u \in Threads \ {t} :
        /\ pc[t] = "idle" /\ pc[u] = "idle"
        /\ loc[t].op \in {"save_spiderlog", "bulk_apply"}
        /\ loc[u].op \in {"save_spiderlog", "bulk_apply"}
        /\ loc[t].ids # {} /\ loc[u].ids # {}
        /\ LogKey(loc[t]) = LogKey(loc[u])
        /\ loc[t].seen = loc[u].seen
        /\ LET k == LogKey(loc[t])
           IN  /\ k \in DOMAIN writes
               /\ Len(writes[k]) = loc[t].seen + 2
               /\ writes[k][Len(writes[k]) - 1] # writes[k][Len(writes[k])]
               /\ \E r \in db.spiderlog :
                     /\ r.spider_id = k[1] /\ r.day = k[2]
                     /\ RowFields(r) = writes[k][Len(writes[k])]

\* C14: whatever the interleaving of create_batch, save_spiderlog, bulk_apply,
\* set_highlight and delete_batch, every committed spiderlog row and every committed
\* highlights row is the row of a spider that exists.
C14_NoOrphanRows ==
    /\ \A r \in db.spiderlog : LiveSpider(db, r.spider_id)
    /\ \A h \in db.highlights : LiveSpider(db, h.spider_id)

\* the threads inside a route handler
InHandler == {t \in Threads : pc[t] \in {"handler", "write", "commit"}}

\* C15: a thread is inside a route handler only when _db_inited is set and the
\* schema is committed, also when it arrived while another thread was inside
\* init_db_once; the flag is never set before the schema is committed; and a step
\* in which the body raises leaves _db_inited false and the lock free, with the
\* failed request answered and no handler run for it.
C15_InitBeforeHandlers ==
    [][ /\ InHandler' # {} => db_inited' /\ db'.schema
        /\ db_inited' => db'.schema
        /\ db_inited => db_inited'
        /\ \A t \in Threads :
              (pc[t] = "schema" /\ pc'[t] = "idle") =>
                  /\ ~db_inited'
                  /\ init_lock' = NoThread
                  /\ db' = db
      ]_vars

\* the body raised for one request; a later request ran the body again, set the
\* flag, and its thread is now about to run its handler
C15_Witness ==
    /\ req.body = "init error"
    /\ db_inited
    /\ db.schema
    /\ init_runs = 1
    /\ init_lock = NoThread
    /\ \E t \in Threads : pc[t] = "handler"

====
